---- MODULE Spec2Model ----
(***************************************************************************)
(* Model of core/email_backends.py: ResendEmailBackend, a Django email     *)
(* backend that posts each message to the Resend REST API.                 *)
(*                                                                         *)
(* Two specifications share the operators that model the code:             *)
(*   Spec      the adapter's life cycle: settings, construction and        *)
(*             send_messages over a batch;                                 *)
(*   SpecSend  one _send_message call on a message and an HTTP response    *)
(*             drawn from bounded sets.                                    *)
(***************************************************************************)
EXTENDS Integers, Sequences, FiniteSets, TLC

VARIABLES
    settings,   \* django.conf.settings: the four names the backend reads
    adapter,    \* the ResendEmailBackend instance, or NoAdapter
    ctor,       \* the last construction: its flag, the settings it saw, its result
    call,       \* the last send_messages call on the adapter
    msg,        \* SpecSend: the message handed to _send_message
    sent        \* SpecSend: the request made and how the call ended

vars == <<settings, adapter, ctor, call, msg, sent>>

(***************************************************************************)
(* Python values.  A value carries its type, so that a string and the      *)
(* one-element list holding it are different values.                       *)
(***************************************************************************)
PyNone == [k |-> "none"]

PyStr(s) == [k |-> "str", s |-> s]

PyInt(n) == [k |-> "int", n |-> n]

PyList(xs) == [k |-> "list", items |-> xs]

\* A name that django.conf.settings does not define.
Unset == [k |-> "unset"]

\* A key that a dict does not hold.
Absent == [k |-> "absent"]

\* isinstance(x, list)
IsList(x) == x.k = "list"

\* Python truth value of x: None, "" and [] are false.
Truthy(x) ==
    CASE x.k = "none" -> FALSE
      [] x.k = "str"  -> x.s # ""
      [] x.k = "list" -> x.items # <<>>
      [] x.k = "int"  -> x.n # 0
      [] OTHER        -> FALSE

\* x or y
PyOr(x, y) == IF Truthy(x) THEN x ELSE y

\* getattr(settings, name, default)
GetSetting(st, name, default) == IF st[name] = Unset THEN default ELSE st[name]

(***************************************************************************)
(* Program constants.                                                      *)
(***************************************************************************)
RESEND_API_URL == PyStr("https://api.resend.com/emails")

DefaultTimeout == 10

(***************************************************************************)
(* Bounds.                                                                 *)
(***************************************************************************)
\* Longest batch handed to send_messages.
MaxBatch == 3

\* Longest list of a recipient field.
MaxRecips == 2

\* Longest list of alternatives of a multipart message.
MaxAlts == 2

\* All sequences over S of length at most n.
SeqUpTo(S, n) == UNION {[1..i -> S] : i \in 0..n}

(***************************************************************************)
(* ResendEmailBackend.__init__                                             *)
(***************************************************************************)
NoAdapter == [k |-> "none"]

\* Lines 42-54 with a mutated second check: EMAIL_FROM is never validated.
CtorRaisesKeyOnly(fail_silently, api_key, from_email) ==
    ~Truthy(api_key) /\ ~fail_silently

\* Lines 42-54: whether the constructor raises ValueError.
CtorRaises(fail_silently, api_key, from_email) ==
    \/ ~Truthy(api_key) /\ ~fail_silently
    \/ ~Truthy(from_email) /\ ~fail_silently

\* Lines 37-40: the attributes the constructor sets from the settings.
NewAdapter(st, fail_silently) ==
    [k             |-> "adapter",
     fail_silently |-> fail_silently,
     api_key       |-> GetSetting(st, "RESEND_API_KEY", PyNone),
     api_url       |-> GetSetting(st, "RESEND_API_URL", RESEND_API_URL),
     from_email    |-> GetSetting(st, "EMAIL_FROM", PyNone)]

(***************************************************************************)
(* ResendEmailBackend._send_message: the payload (lines 90-148).           *)
(***************************************************************************)
\* Lines 129-133: the last text/html and the last text/plain alternative.
RECURSIVE ScanAlternatives(_, _, _, _)
ScanAlternatives(alternatives, i, html_content, text_content) ==
    IF i > Len(alternatives) THEN [html |-> html_content, text |-> text_content]
    ELSE LET content      == alternatives[i][1]
             content_type == alternatives[i][2]
         IN  IF content_type = "text/html"
             THEN ScanAlternatives(alternatives, i + 1, content, text_content)
             ELSE IF content_type = "text/plain"
             THEN ScanAlternatives(alternatives, i + 1, html_content, content)
             ELSE ScanAlternatives(alternatives, i + 1, html_content, text_content)

\* Lines 144-148 mutated: the body of a regular message always goes to text.
SimpleBodyAlwaysText(message) ==
    [html |-> Absent, text |-> message.body]

\* Lines 144-148: the body of a regular EmailMessage, by content_subtype.
SimpleBody(message) ==
    IF message.content_subtype = "html"
    THEN [html |-> message.body, text |-> Absent]
    ELSE [html |-> Absent, text |-> message.body]

\* Lines 124-142: the body of an EmailMultiAlternatives.
MultipartBody(message) ==
    LET found        == ScanAlternatives(message.alternatives, 1, PyNone, PyNone)
        text_content == IF ~Truthy(found.text) THEN message.body ELSE found.text
    IN  [html |-> IF Truthy(found.html) THEN found.html ELSE Absent,
         text |-> IF Truthy(text_content) THEN text_content ELSE Absent]

\* Lines 90-148: the JSON payload built for one message.
BuildPayload(self, message) ==
    LET to_emails  == IF IsList(message.to) THEN message.to
                      ELSE PyList(<<message.to>>)
        cc_emails  == IF IsList(message.cc) THEN message.cc
                      ELSE PyOr(message.cc, PyList(<<>>))
        bcc_emails == IF IsList(message.bcc) THEN message.bcc
                      ELSE PyOr(message.bcc, PyList(<<>>))
        from_email == PyOr(message.from_email, self.from_email)
        reply_to   == IF IsList(message.reply_to) THEN message.reply_to
                      ELSE PyList(<<message.reply_to>>)
        body       == IF message.multi THEN MultipartBody(message)
                      ELSE SimpleBody(message)
    IN  [from     |-> from_email,
         to       |-> to_emails,
         subject  |-> message.subject,
         cc       |-> IF Truthy(cc_emails) THEN cc_emails ELSE Absent,
         bcc      |-> IF Truthy(bcc_emails) THEN bcc_emails ELSE Absent,
         reply_to |-> IF Truthy(message.reply_to) THEN reply_to ELSE Absent,
         html     |-> body.html,
         text     |-> body.text]

(***************************************************************************)
(* ResendEmailBackend._send_message: the request (lines 158-170).          *)
(***************************************************************************)
\* Lines 159-170 mutated: the URL is looked up in the settings at send time.
BuildRequestUrlFromSettings(self, st, payload) ==
    [url     |-> GetSetting(st, "RESEND_API_URL", RESEND_API_URL),
     auth    |-> "Bearer " \o (IF self.api_key.k = "str" THEN self.api_key.s ELSE "None"),
     json    |-> payload,
     timeout |-> GetSetting(st, "EMAIL_TIMEOUT", PyInt(DefaultTimeout))]

\* Lines 159-170: the arguments of requests.post.  st is the settings module
\* as it is when the request is made: line 169 reads EMAIL_TIMEOUT from it.
BuildRequest(self, st, payload) ==
    [url     |-> self.api_url,
     auth    |-> "Bearer " \o (IF self.api_key.k = "str" THEN self.api_key.s ELSE "None"),
     json    |-> payload,
     timeout |-> GetSetting(st, "EMAIL_TIMEOUT", PyInt(DefaultTimeout))]

(***************************************************************************)
(* ResendEmailBackend._send_message: the response (lines 164-189).         *)
(*                                                                         *)
(* What requests.post gives back is the environment's choice: no response  *)
(* at all (ConnectionError, Timeout), or a response with a status code and *)
(* a body that is a JSON object, another JSON value, or not JSON.          *)
(***************************************************************************)
Statuses == {200, 201, 302, 400, 500}

Bodies == {"json_object", "json_other", "not_json"}

Responses ==
    {[k |-> "no_response"]}
    \cup {[k |-> "response", status |-> s, body |-> b] : s \in Statuses, b \in Bodies}

\* Response.raise_for_status(): HTTPError for a 4xx or 5xx status only.
RaisesForStatus(resp) == 400 <= resp.status /\ resp.status < 600

BodyIsJson(resp) == resp.body \in {"json_object", "json_other"}

Success == [ok |-> TRUE, detail |-> "none"]

Failure(detail) == [ok |-> FALSE, detail |-> detail]

\* Lines 164-189: how one call of _send_message ends for a response.
\*   "parsed_json"      error_detail = e.response.json()            (183-184)
\*   "status_and_text"  e.response.status_code, e.response.text      (186)
\*   "error_text"       str(e) of an exception that has no response  (180),
\*                      or the exception itself when it is no RequestException
Classify(resp) ==
    IF resp.k = "no_response" THEN Failure("error_text")
    ELSE IF RaisesForStatus(resp)
    THEN IF BodyIsJson(resp) THEN Failure("parsed_json")
         ELSE Failure("status_and_text")
    ELSE \* line 173: response.json(), line 176: result.get("id")
         IF resp.body = "json_object" THEN Success
         ELSE Failure("error_text")

\* Lines 86-189: one call of _send_message.
_send_message(self, st, message, resp) ==
    [request |-> BuildRequest(self, st, BuildPayload(self, message)),
     outcome |-> Classify(resp)]

(***************************************************************************)
(* ResendEmailBackend.send_messages (lines 56-84).                         *)
(***************************************************************************)
\* The record of a send_messages call: the requests made, in order, how each
\* _send_message ended, and how the call itself ended.
NoCall ==
    [state |-> "none", n |-> 0, requests |-> <<>>, outcomes |-> <<>>,
     num_sent |-> 0, ret |-> PyNone, error |-> "none"]

StartCall(n) == [NoCall EXCEPT !.state = "running", !.n = n]

Returned(acc, value) == [acc EXCEPT !.state = "returned", !.ret = PyInt(value)]

Raised(acc, error) == [acc EXCEPT !.state = "raised", !.error = error]

\* Line 63 mutated: only the API key is looked at.
DegradedKeyOnly(self) == ~Truthy(self.api_key)

\* Line 63: a required value is missing.
Degraded(self) == ~Truthy(self.api_key) \/ ~Truthy(self.from_email)

\* Lines 72-82 mutated: a message whose dispatch failed is counted as sent.
LoopStepCountsFailures(self, st, message, resp, acc) ==
    LET r    == _send_message(self, st, message, resp)
        acc2 == [acc EXCEPT !.requests = Append(@, r.request),
                            !.outcomes = Append(@, r.outcome)]
    IN  IF r.outcome.ok THEN [acc2 EXCEPT !.num_sent = @ + 1]
        ELSE IF ~self.fail_silently THEN Raised(acc2, "Exception")
        ELSE [acc2 EXCEPT !.num_sent = @ + 1]

\* Lines 72-82 mutated: the failure is logged and absorbed whatever the mode.
LoopStepNeverRaises(self, st, message, resp, acc) ==
    LET r    == _send_message(self, st, message, resp)
        acc2 == [acc EXCEPT !.requests = Append(@, r.request),
                            !.outcomes = Append(@, r.outcome)]
    IN  IF r.outcome.ok THEN [acc2 EXCEPT !.num_sent = @ + 1]
        ELSE acc2

\* Lines 72-82: the body of the loop for one message.
LoopStep(self, st, message, resp, acc) ==
    LET r    == _send_message(self, st, message, resp)
        acc2 == [acc EXCEPT !.requests = Append(@, r.request),
                            !.outcomes = Append(@, r.outcome)]
    IN  IF r.outcome.ok THEN [acc2 EXCEPT !.num_sent = @ + 1]
        ELSE IF ~self.fail_silently THEN Raised(acc2, "Exception")
        ELSE acc2

\* Lines 70-84: the loop over the batch; resps[i] is what requests.post gives
\* back for the i-th message, if it is dispatched.
RECURSIVE SendLoop(_, _, _, _, _, _)
SendLoop(self, st, email_messages, resps, i, acc) ==
    IF i > Len(email_messages) THEN Returned(acc, acc.num_sent)
    ELSE LET acc2 == LoopStep(self, st, email_messages[i], resps[i], acc)
         IN  IF acc2.state = "raised" THEN acc2
             ELSE SendLoop(self, st, email_messages, resps, i + 1, acc2)

\* Lines 60-68 mutated: the configuration is checked before the emptiness.
send_messagesConfigFirst(self, st, email_messages, resps) ==
    LET acc == StartCall(Len(email_messages))
    IN  IF Degraded(self)
        THEN IF ~self.fail_silently THEN Raised(acc, "ValueError")
             ELSE Returned(acc, 0)
        ELSE IF email_messages = <<>> THEN Returned(acc, 0)
        ELSE SendLoop(self, st, email_messages, resps, 1, acc)

\* Lines 56-84: send_messages.
send_messages(self, st, email_messages, resps) ==
    LET acc == StartCall(Len(email_messages))
    IN  IF email_messages = <<>> THEN Returned(acc, 0)
        ELSE IF Degraded(self)
        THEN IF ~self.fail_silently THEN Raised(acc, "ValueError")
             ELSE Returned(acc, 0)
        ELSE SendLoop(self, st, email_messages, resps, 1, acc)

(***************************************************************************)
(* Spec: settings, construction and batches.                               *)
(***************************************************************************)
SettingNames == {"RESEND_API_KEY", "RESEND_API_URL", "EMAIL_FROM", "EMAIL_TIMEOUT"}

SettingValues(name) ==
    CASE name = "RESEND_API_KEY" -> {Unset, PyStr(""), PyStr("re_1"), PyStr("re_2")}
      [] name = "RESEND_API_URL" -> {Unset, PyStr("https://proxy.test/emails")}
      [] name = "EMAIL_FROM"     -> {Unset, PyStr("docs@x.test"), PyStr("noreply@x.test")}
      [] name = "EMAIL_TIMEOUT"  -> {Unset, PyInt(5)}

NoSettings == [name \in SettingNames |-> Unset]

NoCtor == [result |-> "none", fail_silently |-> FALSE, settings |-> NoSettings]

NoMsg == [k |-> "none"]

NoSent == [k |-> "none"]

\* The i-th message of a batch: a regular plain-text message to one address,
\* told from the others by its subject; every second one names its own sender.
BatchMessage(i) ==
    [multi           |-> FALSE,
     from_email      |-> IF i % 2 = 0 THEN PyStr("author@x.test") ELSE PyNone,
     to              |-> PyList(<<PyStr("a@x.test")>>),
     cc              |-> PyList(<<>>),
     bcc             |-> PyList(<<>>),
     reply_to        |-> PyList(<<>>),
     subject         |-> PyStr(ToString(i)),
     body            |-> PyStr("hi"),
     content_subtype |-> "plain",
     alternatives    |-> <<>>]

Batch(n) == [i \in 1..n |-> BatchMessage(i)]

\* What requests.post may give back during a batch.
BatchResponses ==
    {[k |-> "response", status |-> 200, body |-> "json_object"],
     [k |-> "no_response"]}

Init ==
    /\ settings = NoSettings
    /\ adapter = NoAdapter
    /\ ctor = NoCtor
    /\ call = NoCall
    /\ msg = NoMsg
    /\ sent = NoSent

\* The deployment sets, changes or removes one setting.
ChangeSetting(name, value) ==
    /\ settings[name] # value
    /\ settings' = [settings EXCEPT ![name] = value]
    /\ call' = NoCall
    /\ UNCHANGED <<adapter, ctor, msg, sent>>

\* ResendEmailBackend(fail_silently=fail_silently): lines 32-54.
Construct(fail_silently) ==
    LET self == NewAdapter(settings, fail_silently)
    IN  /\ IF CtorRaises(fail_silently, self.api_key, self.from_email)
           THEN /\ adapter' = NoAdapter
                /\ ctor' = [result |-> "ValueError", fail_silently |-> fail_silently,
                            settings |-> settings]
           ELSE /\ adapter' = self
                /\ ctor' = [result |-> "ok", fail_silently |-> fail_silently,
                            settings |-> settings]
        /\ call' = NoCall
        /\ UNCHANGED <<settings, msg, sent>>

\* The caller assigns the backend's public fail_silently attribute (line 37
\* stores it through BaseEmailBackend); lines 63-67 provide for an adapter
\* that lacks a value and is in strict mode.
SetFailSilently(fail_silently) ==
    /\ adapter # NoAdapter
    /\ adapter.fail_silently # fail_silently
    /\ adapter' = [adapter EXCEPT !.fail_silently = fail_silently]
    /\ call' = NoCall
    /\ UNCHANGED <<settings, ctor, msg, sent>>

\* adapter.send_messages(batch), the HTTP responses being the environment's.
SendMessages(n, resps) ==
    /\ adapter # NoAdapter
    /\ call' = send_messages(adapter, settings, Batch(n), resps)
    /\ UNCHANGED <<settings, adapter, ctor, msg, sent>>

Next ==
    \/ \E name \in SettingNames : \E value \in SettingValues(name) :
           ChangeSetting(name, value)
    \/ \E fail_silently \in BOOLEAN : Construct(fail_silently)
    \/ \E fail_silently \in BOOLEAN : SetFailSilently(fail_silently)
    \/ \E n \in 0..MaxBatch : \E resps \in [1..n -> BatchResponses] :
           SendMessages(n, resps)

Spec == Init /\ [][Next]_vars

(***************************************************************************)
(* SpecSend: one _send_message call.                                       *)
(*                                                                         *)
(* An EmailMessage, as far as the backend reads it: multi is               *)
(* isinstance(message, EmailMultiAlternatives); a regular EmailMessage has *)
(* no alternatives attribute, modelled as the empty list.                  *)
(***************************************************************************)
Addresses == {PyStr("a@x.test"), PyStr("b@x.test")}

\* What a recipient attribute may hold: nothing, one address, a list.
RecipientValues ==
    {PyNone, PyStr("a@x.test")}
    \cup {PyList(xs) : xs \in SeqUpTo(Addresses, MaxRecips)}

Contents == {PyStr(""), PyStr("hi"), PyStr("<b>hi</b>")}

AlternativeEntries ==
    {<<c, t>> : c \in Contents, t \in {"text/html", "text/plain"}}
    \cup {<<PyStr("BEGIN:VCALENDAR"), "text/calendar">>}

BaseMessage ==
    [multi           |-> FALSE,
     from_email      |-> PyNone,
     to              |-> PyList(<<PyStr("a@x.test")>>),
     cc              |-> PyList(<<>>),
     bcc             |-> PyList(<<>>),
     reply_to        |-> PyList(<<>>),
     subject         |-> PyStr("subject"),
     body            |-> PyStr("hi"),
     content_subtype |-> "plain",
     alternatives    |-> <<>>]

\* Messages that differ in their recipient attributes.
RecipientMessages ==
    {[BaseMessage EXCEPT !.to = t, !.cc = c, !.bcc = b, !.reply_to = r] :
        t \in RecipientValues, c \in RecipientValues,
        b \in RecipientValues, r \in RecipientValues}

\* Regular messages that differ in body, subtype and sender.
SimpleMessages ==
    {[BaseMessage EXCEPT !.body = b, !.content_subtype = s, !.from_email = f] :
        b \in {PyStr(""), PyStr("hi"), PyStr("<p>x</p>")}, s \in {"plain", "html"},
        f \in {PyNone, PyStr(""), PyStr("author@x.test")}}

\* EmailMultiAlternatives that differ in body, subtype and alternatives.
MultipartMessages ==
    {[BaseMessage EXCEPT !.multi = TRUE, !.body = b, !.content_subtype = s,
                         !.alternatives = a] :
        b \in {PyStr(""), PyStr("hi")}, s \in {"plain", "html"},
        a \in SeqUpTo(AlternativeEntries, MaxAlts)}

MessageSpace == RecipientMessages \cup SimpleMessages \cup MultipartMessages

SendSettings ==
    [NoSettings EXCEPT !["RESEND_API_KEY"] = PyStr("re_1"),
                       !["EMAIL_FROM"] = PyStr("docs@x.test")]

InitSend ==
    /\ settings = SendSettings
    /\ adapter = NewAdapter(SendSettings, FALSE)
    /\ ctor = [result |-> "ok", fail_silently |-> FALSE, settings |-> SendSettings]
    /\ call = NoCall
    /\ msg \in MessageSpace
    /\ sent = NoSent

\* adapter._send_message(msg), requests.post giving back resp.
Send(resp) ==
    /\ sent = NoSent
    /\ LET r == _send_message(adapter, settings, msg, resp)
       IN  sent' = [k |-> "sent", response |-> resp,
                    request |-> r.request, outcome |-> r.outcome]
    /\ UNCHANGED <<settings, adapter, ctor, call, msg>>

NextSend == \E resp \in Responses : Send(resp)

SpecSend == InitSend /\ [][NextSend]_vars

(***************************************************************************)
(* Properties.                                                             *)
(***************************************************************************)
\* A required value that is empty or not there.
IsMissing(v) == v \in {Unset, PyNone, PyStr("")}

\* The adapter holds both required values.
Complete(a) == ~IsMissing(a.api_key) /\ ~IsMissing(a.from_email)

CallDone == call.state \in {"returned", "raised"}

\* The messages of the call in progress whose dispatch succeeded.
Succeeded == {i \in 1..Len(call.outcomes) : call.outcomes[i].ok}

\* The first j requests of the call are for the first j messages, in order.
InListOrder ==
    \A i \in 1..Len(call.requests) :
        call.requests[i].json.subject = BatchMessage(i).subject

\* C1: in silent mode with both required values set, send_messages makes one
\* request per message of the batch, in list order, does not raise, and
\* returns the number of messages whose dispatch succeeded.
C1_SilentBatchCountsSuccesses ==
    (CallDone /\ adapter.fail_silently /\ Complete(adapter)) =>
        /\ call.state = "returned"
        /\ call.error = "none"
        /\ Len(call.requests) = call.n
        /\ Len(call.outcomes) = call.n
        /\ InListOrder
        /\ call.ret = PyInt(Cardinality(Succeeded))

\* A silent batch of 3 whose 2nd dispatch alone fails: 2 is returned.
C1_Witness ==
    /\ call.state = "returned"
    /\ adapter.fail_silently
    /\ call.n = 3
    /\ Len(call.requests) = 3
    /\ Succeeded = {1, 3}
    /\ call.ret = PyInt(2)

\* C2: in strict mode with both required values set, the first dispatch that
\* fails ends the call with its exception: it is the last request made, the
\* messages before it were dispatched in order and succeeded, and nothing is
\* returned; a call that returns has dispatched the whole batch successfully.
C2_StrictBatchAbortsOnFirstFailure ==
    (CallDone /\ ~adapter.fail_silently /\ Complete(adapter)) =>
        /\ InListOrder
        /\ Len(call.outcomes) = Len(call.requests)
        /\ \A i \in 1..Len(call.outcomes) :
               ~call.outcomes[i].ok =>
                   /\ i = Len(call.outcomes)
                   /\ call.state = "raised"
                   /\ call.error = "Exception"
                   /\ call.ret = PyNone
        /\ call.state = "raised" => Succeeded = 1..(Len(call.requests) - 1)
        /\ call.state = "returned" =>
               /\ Len(call.requests) = call.n
               /\ Succeeded = 1..call.n

\* A strict batch of 3 whose 2nd dispatch fails: two requests, no third.
C2_Witness ==
    /\ call.state = "raised"
    /\ ~adapter.fail_silently
    /\ call.n = 3
    /\ Len(call.requests) = 2
    /\ call.outcomes[1].ok
    /\ ~call.outcomes[2].ok

\* C3: an adapter that lacks the API key or the sender makes no HTTP request;
\* on a non-empty batch it returns 0 in silent mode and raises the
\* configuration error in strict mode.
C3_DegradedNeverDispatches ==
    (CallDone /\ ~Complete(adapter)) =>
        /\ call.requests = <<>>
        /\ (call.n > 0 /\ adapter.fail_silently) =>
               (call.state = "returned" /\ call.ret = PyInt(0))
        /\ (call.n > 0 /\ ~adapter.fail_silently) =>
               (call.state = "raised" /\ call.error = "ValueError")

\* A strict adapter that has the key but no sender refuses a batch of 2.
C3_Witness ==
    /\ call.state = "raised"
    /\ call.error = "ValueError"
    /\ call.n = 2
    /\ ~IsMissing(adapter.api_key)
    /\ IsMissing(adapter.from_email)

\* C4: construction raises exactly when fail_silently is false and the API
\* key or the sender is empty or unset; so a constructed strict adapter holds
\* both, and silent construction always succeeds.
C4_ConstructionFailsIffStrictAndMissing ==
    LET missing == \/ IsMissing(ctor.settings["RESEND_API_KEY"])
                   \/ IsMissing(ctor.settings["EMAIL_FROM"])
    IN  ctor.result # "none" =>
            /\ ctor.result = "ValueError" <=> (~ctor.fail_silently /\ missing)
            /\ ctor.result = "ok" <=> adapter # NoAdapter
            /\ (ctor.result = "ok" /\ ~ctor.fail_silently) => Complete(adapter)
            /\ (ctor.result = "ok" /\ missing) => ~Complete(adapter)

\* Strict construction with the key set and the sender unset has raised.
C4_Witness ==
    /\ ctor.result = "ValueError"
    /\ ~IsMissing(ctor.settings["RESEND_API_KEY"])
    /\ IsMissing(ctor.settings["EMAIL_FROM"])

RecipientFields == {"to", "cc", "bcc", "reply_to"}

\* C5: for each recipient field, one address a and the list [a] give the same
\* payload field, a list that keeps the given order and the duplicates; an
\* empty or absent cc, bcc or reply_to is left out of the payload.
C5_RecipientsNormalizeToLists ==
    sent # NoSent =>
        \A f \in RecipientFields :
            LET v == msg[f]
                p == sent.request.json[f]
            IN  /\ (v.k = "str" /\ v.s # "") =>
                       /\ p = BuildPayload(adapter, [msg EXCEPT ![f] = PyList(<<v>>)])[f]
                       /\ p = PyList(<<v>>)
                /\ (v.k = "list" /\ v.items # <<>>) => p = v
                /\ (f # "to" /\ IsMissing(v)) => p = Absent
                /\ (f # "to" /\ v = PyList(<<>>)) => p = Absent

\* The alternatives of the message of a given content type, by position.
AlternativesOf(type) ==
    {i \in 1..Len(msg.alternatives) : msg.alternatives[i][2] = type}

\* C6: for a message with alternatives, html is the content of an html
\* alternative when there is one and is left out otherwise; text is the
\* content of a plain alternative when there is one, and the primary body
\* only when there is none.
C6_AlternativesDecideHtmlAndText ==
    (sent # NoSent /\ msg.multi /\ msg.alternatives # <<>>) =>
        LET payload == sent.request.json
            htmls   == AlternativesOf("text/html")
            plains  == AlternativesOf("text/plain")
        IN  /\ htmls # {} => \E i \in htmls : payload.html = msg.alternatives[i][1]
            /\ htmls = {} => payload.html = Absent
            /\ plains # {} => \E i \in plains : payload.text = msg.alternatives[i][1]
            /\ (plains = {} /\ msg.body # PyStr("")) => payload.text = msg.body

\* Exactly one of html and text, chosen by the subtype, holding the body.
OneBodyFieldBySubtype ==
    LET payload == sent.request.json
    IN  IF msg.content_subtype = "html"
        THEN payload.html = msg.body /\ payload.text = Absent
        ELSE payload.text = msg.body /\ payload.html = Absent

\* C7 as stated: a message with no alternatives gets exactly one of html and
\* text, by its subtype.
C7_NoAlternativesOneBodyField ==
    (sent # NoSent /\ msg.alternatives = <<>>) => OneBodyFieldBySubtype

\* C7, amended: a message that is not an EmailMultiAlternatives gets exactly
\* one of html and text: html holding the body when its subtype is html, text
\* holding the body for any other subtype.
C7_RegularMessageOneBodyField ==
    (sent # NoSent /\ ~msg.multi) => OneBodyFieldBySubtype

\* A regular html message was sent: html is its body and there is no text.
C7_Witness ==
    /\ sent # NoSent
    /\ ~msg.multi
    /\ msg.content_subtype = "html"
    /\ msg.body = PyStr("<p>x</p>")
    /\ sent.request.json.html = PyStr("<p>x</p>")
    /\ sent.request.json.text = Absent

\* A response whose status is 2xx.
Is2xx(resp) == 200 <= resp.status /\ resp.status < 300

\* C8: every response that is not 2xx, and every transport failure, is a
\* failure whose detail is the parsed JSON when the body is JSON, else the
\* status code and the body text when there is a response, else the text of
\* the transport error.
C8_Non2xxIsFailureWithDetail ==
    LET resp == sent.response
    IN  (sent # NoSent /\ (resp.k = "no_response" \/ ~Is2xx(resp))) =>
            /\ ~sent.outcome.ok
            /\ sent.outcome.detail =
                   IF resp.k = "no_response" THEN "error_text"
                   ELSE IF resp.body \in {"json_object", "json_other"}
                   THEN "parsed_json"
                   ELSE "status_and_text"

\* C9: send_messages on an empty list returns 0, makes no request and raises
\* nothing, whatever the adapter's configuration and mode.
C9_EmptyBatchReturnsZero ==
    (CallDone /\ call.n = 0) =>
        /\ call.state = "returned"
        /\ call.ret = PyInt(0)
        /\ call.error = "none"
        /\ call.requests = <<>>

\* An empty batch on a strict adapter that lacks a required value returned 0.
C9_Witness ==
    /\ call.state = "returned"
    /\ call.n = 0
    /\ ~adapter.fail_silently
    /\ ~Complete(adapter)

\* The requests of the call use the URL, the API key and the default sender
\* that the settings held when the adapter was constructed.
RequestsUseConstructionValues ==
    \A i \in 1..Len(call.requests) :
        LET r == call.requests[i]
        IN  /\ r.url = GetSetting(ctor.settings, "RESEND_API_URL", RESEND_API_URL)
            /\ r.auth = "Bearer " \o ctor.settings["RESEND_API_KEY"].s
            /\ ~Truthy(BatchMessage(i).from_email) =>
                   r.json.from = ctor.settings["EMAIL_FROM"]

====
